---------------------------- MODULE Spec2Model ----------------------------
(***************************************************************************)
(* Manifest and TSV rewriting tools of egs/zipvoice/local_wordcab:         *)
(*   filter_manifest.py, check_manifest.py, check_manifest2.py,            *)
(*   fix_missing_tsv_path.py, patch_tsv_paths.py.                          *)
(*                                                                         *)
(* A file system is a function from path names to file contents; a file    *)
(* content is a sequence of lines (JSONL manifests) or of rows (TSV        *)
(* tables).  Each tool is a sequential program; every file-system call and *)
(* every loop iteration is one action, so that the intermediate states of  *)
(* a run are states of the model.                                          *)
(***************************************************************************)
EXTENDS Integers, Sequences, FiniteSets, TLC

(***************************************************************************)
(* Bounds of the model.                                                    *)
(***************************************************************************)
\* longest manifest, in lines
MaxLines == 2
\* longest TSV table, in rows
MaxRows == 2
\* longest text given to normalize_text, in code points
MaxText == 3
\* longest path given to transform_path after its first directories, in units
MaxTail == 5
\* most runs of a tool on the same file, one after the other
MaxRuns == 2

(***************************************************************************)
(* Text: a string is a sequence of code points, each named by a token.     *)
(*   "h"       a letter with no precomposed acute form                     *)
(*   "e"       a letter that composes with U+0301 into U+00E9              *)
(*   "U+0301"  COMBINING ACUTE ACCENT      "U+00E9"  e with acute          *)
(*   "."       FULL STOP                   "U+2026"  HORIZONTAL ELLIPSIS   *)
(*   "QUOT"    ASCII quotation mark        "U+201C"  LEFT DOUBLE QUOTE     *)
(*   "SP" space, "TAB", "LF", "CR", "FF" form feed, "VT" vertical tab      *)
(*   "U+00A0"  NO-BREAK SPACE              "U+200B"  ZERO WIDTH SPACE      *)
(*   "U+0001"  a C0 control                "U+0085"  a C1 control (NEL)    *)
(*   "U+180E"  MONGOLIAN VOWEL SEPARATOR                                   *)
(***************************************************************************)
Chars ==
    {"h", "e", "U+0301", "U+00E9", ".", "U+2026", "QUOT", "U+201C",
     "SP", "TAB", "LF", "CR", "FF", "VT", "U+00A0", "U+200B",
     "U+0001", "U+0085", "U+180E"}

\* _ZW_CHARS
ZW_CHARS == {"U+200B", "U+180E"}

\* the keys of _PUNCT_MAP that are in Chars
PUNCT_KEYS == {"U+201C", "U+2026", "U+00A0", "U+180E"}

\* _PUNCT_MAP: the replacement of one code point by str.translate
PunctMap(c) ==
    CASE c = "U+201C" -> <<"QUOT">>
      [] c = "U+2026" -> <<".", ".", ".">>
      [] c = "U+00A0" -> <<"SP">>
      [] c = "U+180E" -> <<"SP">>
      [] OTHER -> <<c>>

\* _CTRL_REGEX: the code points the control-character class matches
CTRL_CLASS == {"U+0001", "VT", "FF", "U+200B"}

\* the class [ \t\f\v] of _WS_MULTI and _WS_LINES
HWS == {"SP", "TAB", "FF", "VT"}

\* str.isspace(): the code points str.strip() removes
PyWhitespace == {"SP", "TAB", "LF", "CR", "FF", "VT", "U+0085", "U+00A0"}

\* s.translate(_PUNCT_TRANS): every code point replaced by its mapping
RECURSIVE Translate(_)
Translate(s) ==
    IF s = <<>> THEN <<>> ELSE PunctMap(Head(s)) \o Translate(Tail(s))

\* the number of elements of s that are in set S
RECURSIVE CountIn(_, _)
CountIn(s, S) ==
    IF s = <<>> THEN 0
    ELSE (IF Head(s) \in S THEN 1 ELSE 0) + CountIn(Tail(s), S)

\* unicodedata.normalize("NFKC", .), first half: canonical and compatibility
\* decomposition of one code point
NFKDChar(c) ==
    CASE c = "U+00E9" -> <<"e", "U+0301">>
      [] c = "U+2026" -> <<".", ".", ".">>
      [] c = "U+00A0" -> <<"SP">>
      [] OTHER -> <<c>>

\* unicodedata.normalize("NFKC", .), second half: canonical composition, a
\* combining acute joins the starter "e" right before it
RECURSIVE ComposeFrom(_, _)
ComposeFrom(out, s) ==
    IF s = <<>> THEN out
    ELSE IF Head(s) = "U+0301" /\ out # <<>> /\ out[Len(out)] = "e"
         THEN ComposeFrom(SubSeq(out, 1, Len(out) - 1) \o <<"U+00E9">>, Tail(s))
         ELSE ComposeFrom(Append(out, Head(s)), Tail(s))

\* the decomposition of a text, code point by code point
RECURSIVE NFKD(_)
NFKD(s) ==
    IF s = <<>> THEN <<>> ELSE NFKDChar(Head(s)) \o NFKD(Tail(s))

\* unicodedata.normalize("NFKC", s)
NFKC(s) == ComposeFrom(<<>>, NFKD(s))

Min(a, b) == IF a <= b THEN a ELSE b

Abs(n) == IF n < 0 THEN -n ELSE n

\* sum(1 for a, b in zip(before, s) if a != b) + abs(len(before) - len(s))
NfkcChangeCount(before, s) ==
    Cardinality({i \in 1..Min(Len(before), Len(s)) : before[i] # s[i]})
        + Abs(Len(before) - Len(s))

\* _drop_controls: the text without the code points of the control class
DropControls(s) == SelectSeq(s, LAMBDA c : c \notin CTRL_CLASS)

\* _WS_MULTI.sub(" ", s): every maximal run of horizontal whitespace becomes
\* one space
RECURSIVE WsMultiFrom(_, _, _)
WsMultiFrom(out, inRun, s) ==
    IF s = <<>> THEN out
    ELSE IF Head(s) \in HWS
         THEN WsMultiFrom(IF inRun THEN out ELSE Append(out, "SP"), TRUE, Tail(s))
         ELSE WsMultiFrom(Append(out, Head(s)), FALSE, Tail(s))

WsMulti(s) == WsMultiFrom(<<>>, FALSE, s)

\* the first index >= i of s that holds no horizontal whitespace (Len(s)+1 if none)
RECURSIVE SkipHws(_, _)
SkipHws(s, i) ==
    IF i <= Len(s) /\ s[i] \in HWS THEN SkipHws(s, i + 1) ELSE i

\* _WS_LINES.sub("\n", s): leftmost non-overlapping matches of
\* [ \t\f\v]*\n[ \t\f\v]*, scanning from index i
RECURSIVE WsLinesFrom(_, _)
WsLinesFrom(s, i) ==
    IF i > Len(s) THEN <<>>
    ELSE LET j == SkipHws(s, i)
         IN  IF j <= Len(s) /\ s[j] = "LF"
             THEN <<"LF">> \o WsLinesFrom(s, SkipHws(s, j + 1))
             ELSE <<s[i]>> \o WsLinesFrom(s, i + 1)

WsLines(s) == WsLinesFrom(s, 1)

\* re.sub(r"\n{3,}", "\n\n", s)
RECURSIVE NewlinesFrom(_, _)
NewlinesFrom(out, s) ==
    IF s = <<>> THEN out
    ELSE IF /\ Head(s) = "LF"
            /\ Len(out) >= 2
            /\ out[Len(out)] = "LF"
            /\ out[Len(out) - 1] = "LF"
         THEN NewlinesFrom(out, Tail(s))
         ELSE NewlinesFrom(Append(out, Head(s)), Tail(s))

CollapseNewlines(s) == NewlinesFrom(<<>>, s)

RECURSIVE LStrip(_)
LStrip(s) ==
    IF s # <<>> /\ Head(s) \in PyWhitespace THEN LStrip(Tail(s)) ELSE s

RECURSIVE RStrip(_)
RStrip(s) ==
    IF s # <<>> /\ s[Len(s)] \in PyWhitespace
    THEN RStrip(SubSeq(s, 1, Len(s) - 1))
    ELSE s

\* str.strip()
Strip(s) == RStrip(LStrip(s))

\* normalize_text(s): the normalized text and the statistics
normalize_text(s) ==
    LET s1 == NFKC(s)
        s2 == Translate(s1)
        s3 == DropControls(s2)
        s4 == CollapseNewlines(WsLines(WsMulti(s3)))
        s5 == Strip(s4)
    IN  [text |-> s5,
         stats |->
           [nkfc_changes |-> IF s1 # s THEN NfkcChangeCount(s, s1) ELSE 0,
            replaced_punct |-> IF s2 # s1 THEN CountIn(s1, PUNCT_KEYS) ELSE 0,
            nbspace_to_space |-> CountIn(s1, {"U+00A0"}),
            controls_removed |-> CountIn(s2, CTRL_CLASS \ ZW_CHARS),
            zero_width_removed |-> CountIn(s2, CTRL_CLASS \cap ZW_CHARS),
            whitespace_collapsed |->
                (IF s4 # s3 THEN 1 ELSE 0) + (IF s5 # s4 THEN 1 ELSE 0)]]


(***************************************************************************)
(* JSON values.  A field of a record is tagged with what the line holds    *)
(* for it, so that an absent field, a null and a value stay distinct.      *)
(* Durations are counted in ticks of 1/24000 second (one sample at the     *)
(* default --target-sr), which makes the derived minimum an integer.       *)
(***************************************************************************)
NoNum == [k |-> "missing", v |-> 0]
NullNum == [k |-> "null", v |-> 0]
Num(n) == [k |-> "num", v |-> n]

NoChannel == [k |-> "missing", v |-> <<>>]
ChInt(c) == [k |-> "int", v |-> <<c>>]
ChList(l) == [k |-> "list", v |-> l]

NoText == [k |-> "missing", v |-> <<>>]
Str(s) == [k |-> "str", v |-> s]

NoSups == [k |-> "missing", v |-> <<>>]
NullSups == [k |-> "null", v |-> <<>>]
SupList(l) == [k |-> "list", v |-> l]

Sup(text, dur) == [text |-> text, duration |-> dur]

\* one cut: obj["duration"], obj["recording"]["sampling_rate"],
\* obj["channel"], obj["supervisions"]
Cut(dur, sr, ch, sups) ==
    [duration |-> dur, sampling_rate |-> sr, channel |-> ch, supervisions |-> sups]

\* ticks per second
TICKS == 24000
Seconds(n) == n * TICKS

(***************************************************************************)
(* Lines of a manifest: a blank line, a line that is not valid UTF-8, a    *)
(* line that is not JSON, a JSON value that is not an object, or a cut.    *)
(***************************************************************************)
NoObj == Cut(NoNum, NoNum, NoChannel, NoSups)
BlankLine == [k |-> "blank", obj |-> NoObj]
BadUtf8Line == [k |-> "badutf8", obj |-> NoObj]
BadJsonLine == [k |-> "badjson", obj |-> NoObj]
NonDictLine == [k |-> "nondict", obj |-> NoObj]
CutLine(obj) == [k |-> "cut", obj |-> obj]

HelloText == <<"h", "U+2026", "U+200B", "SP", "h">>

\* a cut every tool keeps under its defaults
CutOk == Cut(Num(Seconds(5)), Num(24000), ChList(<<0>>),
             SupList(<<Sup(Str(<<"h">>), Num(Seconds(5)))>>))
\* too short, and its only text is whitespace
CutShortBlank == Cut(Num(Seconds(2)), Num(24000), ChList(<<0>>),
                     SupList(<<Sup(Str(<<"SP">>), Num(Seconds(2)))>>))
\* too short, with a text that normalization changes
CutShortFancy == Cut(Num(Seconds(2)), Num(24000), ChList(<<0>>),
                     SupList(<<Sup(Str(HelloText), Num(Seconds(2)))>>))
\* another sampling rate
CutRate16 == Cut(Num(Seconds(5)), Num(16000), ChList(<<0>>),
                 SupList(<<Sup(Str(<<"h">>), Num(Seconds(5)))>>))
\* a scalar channel
CutScalarCh == Cut(Num(Seconds(5)), Num(24000), ChInt(0),
                   SupList(<<Sup(Str(<<"h">>), Num(Seconds(5)))>>))
\* no duration, no channel, no sampling rate
CutBare == Cut(NoNum, NoNum, NoChannel,
               SupList(<<Sup(Str(<<"h">>), NoNum)>>))
\* "supervisions": null
CutNullSups == Cut(Num(Seconds(5)), Num(24000), ChList(<<0>>), NullSups)
\* long enough, its text is missing
CutNoText == Cut(Num(Seconds(5)), Num(24000), ChList(<<0>>),
                 SupList(<<Sup(NoText, Num(Seconds(5)))>>))
\* long enough, one supervision is too short
CutSupShort == Cut(Num(Seconds(5)), Num(24000), ChList(<<0>>),
                   SupList(<<Sup(Str(<<"h">>), Num(Seconds(5))),
                             Sup(Str(<<"e", "U+0301">>), Num(Seconds(2)))>>))

\* long enough, its text is empty only after normalization
CutBlankLong == Cut(Num(Seconds(5)), Num(24000), ChList(<<0>>),
                    SupList(<<Sup(Str(<<"SP", "U+200B">>), Num(Seconds(5)))>>))
\* exactly the default minimum duration, two channels, a text that
\* normalization changes
CutExactTwoCh == Cut(Num(Seconds(3)), Num(24000), ChList(<<0, 1>>),
                     SupList(<<Sup(Str(HelloText), Num(Seconds(3)))>>))
\* exactly the default minimum duration
CutExact == Cut(Num(Seconds(3)), Num(24000), ChList(<<0>>),
                SupList(<<Sup(Str(<<"h">>), Num(Seconds(3)))>>))

\* the cuts a manifest of the model may hold
Cuts == {CutOk, CutShortBlank, CutShortFancy, CutRate16, CutScalarCh,
         CutBare, CutNullSups, CutNoText, CutSupShort, CutBlankLong,
         CutExactTwoCh, CutExact}

ManifestLines ==
    {BlankLine, BadUtf8Line, BadJsonLine, NonDictLine} \cup {CutLine(c) : c \in Cuts}

\* all sequences over S of length at most n
SeqsUpTo(S, n) == UNION {[1..m -> S] : m \in 0..n}

(***************************************************************************)
(* Files.                                                                  *)
(***************************************************************************)
Absent == [exists |-> FALSE, data |-> <<>>]
File(data) == [exists |-> TRUE, data |-> data]


\* the keys the histograms of a run can get
RateKeys == {c.sampling_rate.v : c \in {x \in Cuts : x.sampling_rate.k = "num"}}
ChannelKeys == {c.channel.v : c \in {x \in Cuts : x.channel.k # "missing"}}

\* the statistics dictionary of normalize_text, all zero
ZeroNorm ==
    [nkfc_changes |-> 0, replaced_punct |-> 0, nbspace_to_space |-> 0,
     controls_removed |-> 0, zero_width_removed |-> 0, whitespace_collapsed |-> 0]

\* Counter.update: the sum of two tallies, field by field
AddNorm(a, b) ==
    [nkfc_changes |-> a.nkfc_changes + b.nkfc_changes,
     replaced_punct |-> a.replaced_punct + b.replaced_punct,
     nbspace_to_space |-> a.nbspace_to_space + b.nbspace_to_space,
     controls_removed |-> a.controls_removed + b.controls_removed,
     zero_width_removed |-> a.zero_width_removed + b.zero_width_removed,
     whitespace_collapsed |-> a.whitespace_collapsed + b.whitespace_collapsed]

\* the counters of main() at the start of a run
ZeroStats ==
    [decode_errors |-> 0, invalid_json |-> 0, normalized_entries |-> 0,
     empty_text_after_norm |-> 0, too_short_duration |-> 0,
     sampling_rates |-> [r \in RateKeys |-> 0],
     channels |-> [c \in ChannelKeys |-> 0],
     agg_norm_stats |-> ZeroNorm]

\* the path names of the manifest tools
MANIFEST == "manifest.jsonl"
BACKUP == "manifest.jsonl.<ts>.bak"
OUTPUT == "out.jsonl"
TMP == ".filter_tmp_XXXX"
\* the backup an earlier run made in an earlier clock second
BACKUP_EARLIER == "manifest.jsonl.<earlier ts>.bak"
ManifestPaths == {MANIFEST, BACKUP, BACKUP_EARLIER, OUTPUT, TMP}

(***************************************************************************)
(* State.                                                                  *)
(*   run     the number of the run in progress on the same file           *)
(*   tool    the program that runs                                         *)
(*   args    its command line                                              *)
(*   fs      the file system;  fs0  the file system when the run started   *)
(*   pc      the position of the program                                   *)
(*   pos     the index of the next line (row) the read loop yields         *)
(*   out     the lines written so far to the open output handle            *)
(*   kept, total    the counters of that name                              *)
(*   stats   the other counters of a run                                   *)
(*   raised  the exception in flight: where it was raised and its type     *)
(*   status  the exit status of the process, set when it ends (pc = "done") *)
(*   multi   the state of main() of the TSV tools across the files         *)
(***************************************************************************)
VARIABLES run, tool, args, fs, fs0, pc, pos, out, kept, total, stats, raised, status, multi

vars == <<run, tool, args, fs, fs0, pc, pos, out, kept, total, stats, raised, status, multi>>

NoMulti == [i |-> 0]

NoExc == [at |-> "none", exc |-> "none"]
Exc(at, exc) == [at |-> at, exc |-> exc]

(***************************************************************************)
(* filter_manifest.py                                                      *)
(***************************************************************************)
\* the defaults of --n-fft and --target-sr
N_FFT == 1024
TARGET_SR == 24000

\* compute_min_seconds(args), in ticks
compute_min_seconds(a) ==
    IF a.min_seconds.k = "num" THEN a.min_seconds.v
    ELSE IF a.pad_mode \in {"reflect", "replicate"}
         THEN (((a.n_fft \div 2) + 1) * TICKS) \div a.target_sr
         ELSE 0

\* float(x.get("duration", 0.0)) for a value that float() accepts
FloatOr0(d) == IF d.k = "num" THEN d.v ELSE 0

\* filter_line(obj, min_seconds, check_supervisions) on the value of a line:
\* "keep" (True), "drop" (False) or "raise" (the TypeError of iterating over
\* "supervisions": null, which no try of filter_line covers)
filter_line(line, min_seconds, check_supervisions) ==
    IF line.k # "cut" THEN "drop"
    ELSE LET obj == line.obj
             sups == obj.supervisions
         IN  IF obj.duration.k = "null" \/ FloatOr0(obj.duration) < min_seconds
             THEN "drop"
             ELSE IF ~check_supervisions THEN "keep"
             ELSE IF sups.k = "null" THEN "raise"
             ELSE IF \E i \in 1..Len(sups.v) :
                        \/ sups.v[i].duration.k = "null"
                        \/ FloatOr0(sups.v[i].duration) < min_seconds
                  THEN "drop"
                  ELSE "keep"

\* A reader opened in text mode decodes the file a buffer at a time, and the
\* decoder raises UnicodeDecodeError for the whole buffer: the iteration that
\* would yield line pos raises when that line, or a later line that shares
\* its buffer, holds bytes that are not UTF-8.
DecodeFails(data, p) == \E j \in p..Len(data) : data[j].k = "badutf8"

\* in_place and output_path of main()
InPlace(a) == a.output = "none" \/ a.output = a.input
OutputPath(a) == IF InPlace(a) THEN a.input ELSE a.output

\* a variant of TmpPath: the output is written straight onto the output path
TmpPath_onto_output(a) == OutputPath(a)

\* tmp_path: the file tempfile.mkstemp creates beside the output path
TmpPath(a) == TMP

\* the lines filter_manifest manifests are made of; the last one is a cut
\* whose text is not the text json.dumps writes for it (other spacing,
\* escapes or spelling of numbers)
FilterLines ==
    {BlankLine, BadUtf8Line, BadJsonLine, NonDictLine, CutLine(CutOk),
     CutLine(CutShortBlank), CutLine(CutBare), CutLine(CutNullSups),
     CutLine(CutSupShort),
     [k |-> "cut", obj |-> CutExact, spelling |-> "other"]}

FilterArgs ==
    [input : {MANIFEST}, output : {"none", OUTPUT},
     min_seconds : {NoNum, Num(Seconds(3))}, pad_mode : {"reflect", "constant"},
     n_fft : {N_FFT}, target_sr : {TARGET_SR},
     check_supervisions : BOOLEAN, keep_empty : BOOLEAN]

FM_Init ==
    /\ run = 1
    /\ tool = "filter_manifest"
    /\ args \in {a \in FilterArgs : a.min_seconds.k = "num" => a.pad_mode = "reflect"}
    /\ \E input \in {Absent} \cup {File(d) : d \in SeqsUpTo(FilterLines, MaxLines)},
          old \in {Absent, File(<<BadJsonLine>>)} :
          /\ args.output = "none" => old = Absent
          /\ fs = [p \in ManifestPaths |->
                      IF p = MANIFEST THEN input
                      ELSE IF p = OUTPUT THEN old ELSE Absent]
    /\ fs0 = fs
    /\ pc = "start"
    /\ pos = 1
    /\ out = <<>>
    /\ kept = 0
    /\ total = 0
    /\ stats = ZeroStats
    /\ raised = NoExc
    /\ status = 0
    /\ multi = NoMulti

\* lines 98-106: the input must be a file
FM_Start ==
    /\ tool = "filter_manifest" /\ pc = "start"
    /\ IF fs[args.input].exists
       THEN pc' = "backup" /\ status' = status
       ELSE pc' = "done" /\ status' = 1
    /\ UNCHANGED <<run, tool, args, fs, fs0, pos, out, kept, total, stats, raised, multi>>

\* lines 108-114: shutil.copy2(args.input, backup_path) when in place; a copy
\* that fails leaves any prefix of the content behind and ends the process
\* with the traceback's status 1
FM_Backup ==
    /\ tool = "filter_manifest" /\ pc = "backup"
    /\ IF InPlace(args)
       THEN \/ /\ fs' = [fs EXCEPT ![BACKUP] = fs[args.input]]
               /\ pc' = "mkstemp"
               /\ UNCHANGED <<raised, status>>
            \/ /\ \E n \in 0..Len(fs[args.input].data) :
                     fs' = [fs EXCEPT ![BACKUP] =
                               File(SubSeq(fs[args.input].data, 1, n))]
               /\ raised' = Exc("backup", "OSError")
               /\ status' = 1
               /\ pc' = "done"
       ELSE /\ pc' = "mkstemp"
            /\ UNCHANGED <<fs, raised, status>>
    /\ UNCHANGED <<run, tool, args, fs0, pos, out, kept, total, stats, multi>>

\* lines 116-124: tempfile.mkstemp in the directory of output_path, then the
\* input and the temporary file are opened
FM_Mkstemp ==
    /\ tool = "filter_manifest" /\ pc = "mkstemp"
    /\ fs' = [fs EXCEPT ![TmpPath(args)] = File(<<>>)]
    /\ pc' = "loop"
    /\ pos' = 1
    /\ out' = <<>>
    /\ UNCHANGED <<run, tool, args, fs0, kept, total, stats, raised, status, multi>>

\* lines 125-137: one iteration of the read loop; a read or a write may fail.
\* A kept record is written as json.dumps(obj) + "\n": the text json.dumps
\* gives the value json.loads returned, not the text of the input line.
FM_Line ==
    /\ tool = "filter_manifest" /\ pc = "loop"
    /\ pos <= Len(fs[args.input].data)
    /\ LET line == fs[args.input].data[pos]
           verdict == filter_line(line, compute_min_seconds(args),
                                  args.check_supervisions)
       IN  \/ \* OSError of the read or of the write
              /\ pc' = "except" /\ raised' = Exc("loop", "OSError")
              /\ UNCHANGED <<pos, out, kept, total, fs>>
           \/ /\ DecodeFails(fs[args.input].data, pos)
              /\ pc' = "except" /\ raised' = Exc("loop", "UnicodeDecodeError")
              /\ UNCHANGED <<pos, out, kept, total, fs>>
           \/ /\ line.k = "blank"
              /\ pos' = pos + 1
              /\ UNCHANGED <<pc, raised, out, kept, total, fs>>
           \/ /\ line.k = "badjson"
              /\ pos' = pos + 1 /\ total' = total + 1
              /\ UNCHANGED <<pc, raised, out, kept, fs>>
           \/ /\ line.k \in {"cut", "nondict"}
              /\ total' = total + 1
              /\ CASE verdict = "raise" ->
                        /\ pc' = "except" /\ raised' = Exc("loop", "TypeError")
                        /\ UNCHANGED <<pos, out, kept, fs>>
                   [] verdict = "drop" ->
                        /\ pos' = pos + 1
                        /\ UNCHANGED <<pc, raised, out, kept, fs>>
                   [] verdict = "keep" ->
                        /\ pos' = pos + 1
                        /\ kept' = kept + 1
                        /\ out' = Append(out, CutLine(line.obj))
                        /\ fs' = [fs EXCEPT ![TmpPath(args)] =
                                     File(Append(out, CutLine(line.obj)))]
                        /\ UNCHANGED <<pc, raised>>
    /\ UNCHANGED <<run, tool, args, fs0, stats, status, multi>>

\* line 124, leaving the with block: both files are closed
FM_EndLoop ==
    /\ tool = "filter_manifest" /\ pc = "loop"
    /\ pos > Len(fs[args.input].data)
    /\ pc' = "after"
    /\ UNCHANGED <<run, tool, args, fs, fs0, pos, out, kept, total, stats, raised, status, multi>>

\* lines 138-145: the temporary file is removed and the process exits with 2
FM_Except ==
    /\ tool = "filter_manifest" /\ pc = "except"
    /\ fs' = [fs EXCEPT ![TmpPath(args)] = Absent]
    /\ status' = 2
    /\ pc' = "done"
    /\ UNCHANGED <<run, tool, args, fs0, pos, out, kept, total, stats, raised, multi>>

\* a variant of FM_Empty: the exit status of a processing failure
FM_Empty_exit2 ==
    /\ tool = "filter_manifest" /\ pc = "after"
    /\ kept = 0 /\ ~args.keep_empty
    /\ fs' = [fs EXCEPT ![TmpPath(args)] = Absent]
    /\ status' = 2
    /\ pc' = "done"
    /\ UNCHANGED <<run, tool, args, fs0, pos, out, kept, total, stats, raised, multi>>

\* lines 147-158: nothing was kept and --keep-empty is not given
FM_Empty ==
    /\ tool = "filter_manifest" /\ pc = "after"
    /\ kept = 0 /\ ~args.keep_empty
    /\ fs' = [fs EXCEPT ![TmpPath(args)] = Absent]
    /\ status' = 3
    /\ pc' = "done"
    /\ UNCHANGED <<run, tool, args, fs0, pos, out, kept, total, stats, raised, multi>>

\* a variant of atomic_replace: the content of src is added after the
\* content dst had
atomic_replace_append(f, src, dst) ==
    [f EXCEPT ![dst] = File(f[dst].data \o f[src].data), ![src] = Absent]

\* atomic_replace(src, dst): os.replace, which renames or raises
atomic_replace(f, src, dst) == [f EXCEPT ![dst] = f[src], ![src] = Absent]

\* lines 160-173: the temporary file replaces the output path; an os.replace
\* that raises ends the process with the traceback's status 1
FM_Replace ==
    /\ tool = "filter_manifest" /\ pc = "after"
    /\ ~(kept = 0 /\ ~args.keep_empty)
    /\ \/ /\ fs' = atomic_replace(fs, TmpPath(args), OutputPath(args))
          /\ status' = 0
          /\ UNCHANGED raised
       \/ /\ raised' = Exc("replace", "OSError")
          /\ status' = 1
          /\ UNCHANGED fs
    /\ pc' = "done"
    /\ UNCHANGED <<run, tool, args, fs0, pos, out, kept, total, stats, multi>>

FM_Next ==
    \/ FM_Start
    \/ FM_Backup
    \/ FM_Mkstemp
    \/ FM_Line
    \/ FM_EndLoop
    \/ FM_Except
    \/ FM_Empty
    \/ FM_Replace

SpecFilter == FM_Init /\ [][FM_Next]_vars


(***************************************************************************)
(* check_manifest.py and check_manifest2.py                                *)
(***************************************************************************)
\* the defaults of --target-sampling-rate, --target-channel, --min-duration
TARGET_SAMPLING_RATE == 24000
TARGET_CHANNEL == <<0>>
MIN_DURATION == Seconds(3)

CheckArgs ==
    [manifest : {MANIFEST}, fix : BOOLEAN,
     target_sampling_rate : {TARGET_SAMPLING_RATE},
     target_channel : {TARGET_CHANNEL},
     keep_empty_text : BOOLEAN, min_duration : {0, MIN_DURATION}]

\* in_path: the file the read loop reads
InPath(a) == IF a.fix THEN BACKUP ELSE a.manifest

\* obj.get("supervisions") or []
SupsOrEmpty(obj) ==
    IF obj.supervisions.k = "list" THEN obj.supervisions.v ELSE <<>>

\* lines 250-257: every supervision text that is a string is replaced by its
\* normalized form
NormalizeSups(sups) ==
    [i \in 1..Len(sups) |->
        IF sups[i].text.k = "str"
        THEN [sups[i] EXCEPT !.text = Str(normalize_text(sups[i].text.v).text)]
        ELSE sups[i]]

\* a variant of AnyChange: only the first supervision is looked at
AnyChange_first_only(sups) ==
    /\ sups # <<>>
    /\ sups[1].text.k = "str"
    /\ normalize_text(sups[1].text.v).text # sups[1].text.v

\* any_change of lines 247-255
AnyChange(sups) ==
    \E i \in 1..Len(sups) :
        /\ sups[i].text.k = "str"
        /\ normalize_text(sups[i].text.v).text # sups[i].text.v

\* entry_norm_stats of lines 248-256: the tallies of all string texts
RECURSIVE EntryNormStats(_)
EntryNormStats(sups) ==
    IF sups = <<>> THEN ZeroNorm
    ELSE AddNorm(IF Head(sups).text.k = "str"
                 THEN normalize_text(Head(sups).text.v).stats
                 ELSE ZeroNorm,
                 EntryNormStats(Tail(sups)))

\* a variant of AllTextEmpty: a text that is missing does not count as empty
AllTextEmpty_strings_only(sups) ==
    \A i \in 1..Len(sups) :
        sups[i].text.k = "str" /\ Strip(sups[i].text.v) = <<>>

\* line 265: no supervision has a text that is a non-blank string
AllTextEmpty(sups) ==
    \A i \in 1..Len(sups) :
        sups[i].text.k # "str" \/ Strip(sups[i].text.v) = <<>>

\* the object after lines 246-257, which json.dumps writes
Cleaned(obj) ==
    IF obj.supervisions.k = "list"
    THEN [obj EXCEPT !.supervisions = SupList(NormalizeSups(obj.supervisions.v))]
    ELSE obj

\* line 274: isinstance(dur, (int, float)) and dur >= args.min_duration
MeetsDuration(dur, min_duration) == dur.k = "num" /\ dur.v >= min_duration

\* a variant of MatchesTarget: the channel is compared after a scalar has
\* been turned into a one-element list
MatchesTarget_normalized_channel(obj, a) ==
    /\ obj.sampling_rate = Num(a.target_sampling_rate)
    /\ obj.channel.k \in {"list", "int"}
    /\ obj.channel.v = a.target_channel

\* line 282 (check_manifest line 99):
\* sr == args.target_sampling_rate and ch == target_channel
MatchesTarget(obj, a) ==
    /\ obj.sampling_rate = Num(a.target_sampling_rate)
    /\ obj.channel = ChList(a.target_channel)

\* a variant of ChKey: a scalar channel gets no key
ChKey_scalar_dropped(ch) ==
    IF ch.k = "list" THEN [some |-> TRUE, key |-> ch.v]
    ELSE [some |-> FALSE, key |-> <<>>]

\* ch_key of lines 231-236 (check_manifest lines 82-89): the tuple of a list,
\* the one-element tuple of a scalar, None when there is no channel
ChKey(ch) ==
    IF ch.k = "list" THEN [some |-> TRUE, key |-> ch.v]
    ELSE IF ch.k = "int" THEN [some |-> TRUE, key |-> <<ch.v[1]>>]
    ELSE [some |-> FALSE, key |-> <<>>]

\* lines 228-241 (check_manifest lines 79-94): the two histograms
CountBase(st, obj) ==
    [st EXCEPT
        !.sampling_rates =
            IF obj.sampling_rate.k = "num"
            THEN [@ EXCEPT ![obj.sampling_rate.v] = @ + 1] ELSE @,
        !.channels =
            IF ChKey(obj.channel).some
            THEN [@ EXCEPT ![ChKey(obj.channel).key] = @ + 1] ELSE @]

CM_Init ==
    /\ run = 1
    /\ tool \in {"check_manifest", "check_manifest2"}
    /\ args \in {a \in CheckArgs :
                    tool = "check_manifest" =>
                        ~a.keep_empty_text /\ a.min_duration = MIN_DURATION}
    /\ \E input \in {Absent} \cup {File(d) : d \in SeqsUpTo(ManifestLines, MaxLines)} :
          fs = [p \in ManifestPaths |-> IF p = MANIFEST THEN input ELSE Absent]
    /\ fs0 = fs
    /\ pc = "start"
    /\ pos = 1
    /\ out = <<>>
    /\ kept = 0
    /\ total = 0
    /\ stats = ZeroStats
    /\ raised = NoExc
    /\ status = 0
    /\ multi = NoMulti

\* check_manifest2 lines 201-204 (check_manifest lines 61-64), --fix:
\* shutil.move(args.manifest, backup_path); a move that raises ends the
\* process with the traceback's status 1
CM_Move ==
    /\ tool \in {"check_manifest", "check_manifest2"} /\ pc = "start"
    /\ args.fix
    /\ IF fs[args.manifest].exists
       THEN \/ /\ fs' = [fs EXCEPT ![BACKUP] = fs[args.manifest],
                                   ![args.manifest] = Absent]
               /\ pc' = "open"
               /\ UNCHANGED <<raised, status>>
            \/ /\ raised' = Exc("backup", "OSError") /\ status' = 1 /\ pc' = "done"
               /\ UNCHANGED fs
       ELSE /\ raised' = Exc("backup", "OSError") /\ status' = 1 /\ pc' = "done"
            /\ UNCHANGED fs
    /\ UNCHANGED <<run, tool, args, fs0, pos, out, kept, total, stats, multi>>

\* check_manifest2 lines 206-208 (check_manifest line 106), no --fix: the
\* manifest itself is read and there is no output handle
CM_CountOnly ==
    /\ tool \in {"check_manifest", "check_manifest2"} /\ pc = "start"
    /\ ~args.fix
    /\ pc' = "loop"
    /\ UNCHANGED <<run, tool, args, fs, fs0, pos, out, kept, total, stats, raised, status, multi>>

\* check_manifest2 line 205 (check_manifest line 67): open_writer creates the
\* manifest path anew, empty
CM_OpenWriter ==
    /\ tool \in {"check_manifest", "check_manifest2"} /\ pc = "open"
    /\ \/ /\ fs' = [fs EXCEPT ![args.manifest] = File(<<>>)]
          /\ out' = <<>>
          /\ pc' = "loop"
          /\ UNCHANGED <<raised, status>>
       \/ /\ raised' = Exc("open", "OSError") /\ status' = 1 /\ pc' = "done"
          /\ UNCHANGED <<fs, out>>
    /\ UNCHANGED <<run, tool, args, fs0, pos, kept, total, stats, multi>>

\* a variant of WriteOut: the line is written to the manifest path also
\* without --fix
WriteOut_without_fix(line) ==
    /\ out' = Append(out, line)
    /\ fs' = [fs EXCEPT ![args.manifest] = File(Append(out, line))]

\* out_fh.write(line) when there is an output handle
WriteOut(line) ==
    IF args.fix
    THEN /\ out' = Append(out, line)
         /\ fs' = [fs EXCEPT ![args.manifest] = File(Append(out, line))]
    ELSE UNCHANGED <<out, fs>>

\* the exception leaves the loop: control goes to the finally clause
RaiseInLoop(exc) ==
    /\ pc' = "finally" /\ raised' = Exc("loop", exc)
    /\ UNCHANGED <<pos, out, fs, kept, total, stats>>

\* check_manifest lines 69-101 and 106-131: one iteration of the read loop
CM1_Line ==
    /\ tool = "check_manifest" /\ pc = "loop"
    /\ \/ ~fs[InPath(args)].exists /\ RaiseInLoop("OSError")
       \/ /\ fs[InPath(args)].exists
          /\ pos <= Len(fs[InPath(args)].data)
          /\ LET line == fs[InPath(args)].data[pos]
                 obj == line.obj
             IN  \/ \* OSError of the read or of the write
                    RaiseInLoop("OSError")
                 \/ /\ DecodeFails(fs[InPath(args)].data, pos)
                    /\ RaiseInLoop("UnicodeDecodeError")
                 \/ \* obj.get of a JSON value that is no object
                    line.k = "nondict" /\ RaiseInLoop("AttributeError")
                 \/ /\ line.k \in {"blank", "badjson"}
                    /\ pos' = pos + 1
                    /\ UNCHANGED <<pc, raised, out, fs, kept, total, stats>>
                 \/ /\ line.k = "cut"
                    /\ pos' = pos + 1
                    /\ stats' = CountBase(stats, obj)
                    /\ total' = total + 1
                    /\ IF args.fix /\ MatchesTarget(obj, args)
                       THEN kept' = kept + 1 /\ WriteOut(line)
                       ELSE UNCHANGED <<kept, out, fs>>
                    /\ UNCHANGED <<pc, raised>>
    /\ UNCHANGED <<run, tool, args, fs0, status, multi>>

\* check_manifest2 lines 211-289: one iteration of the read loop
CM2_Line ==
    /\ tool = "check_manifest2" /\ pc = "loop"
    /\ \/ ~fs[InPath(args)].exists /\ RaiseInLoop("OSError")
       \/ /\ fs[InPath(args)].exists
          /\ pos <= Len(fs[InPath(args)].data)
          /\ LET line == fs[InPath(args)].data[pos]
                 obj == line.obj
                 sups == SupsOrEmpty(obj)
                 st1 == CountBase(stats, obj)
                 st2 == IF AnyChange(sups)
                        THEN [st1 EXCEPT
                                !.normalized_entries = @ + 1,
                                !.agg_norm_stats = AddNorm(@, EntryNormStats(sups))]
                        ELSE st1
                 empty == sups # <<>> /\ AllTextEmpty(NormalizeSups(sups))
                 st3 == IF empty
                        THEN [st2 EXCEPT !.empty_text_after_norm = @ + 1]
                        ELSE st2
             IN  \/ \* OSError of the read or of the write
                    RaiseInLoop("OSError")
                 \/ \* obj.get of a JSON value that is no object
                    line.k = "nondict" /\ RaiseInLoop("AttributeError")
                 \/ /\ line.k = "badutf8"
                    /\ pos' = pos + 1
                    /\ stats' = [stats EXCEPT !.decode_errors = @ + 1]
                    /\ UNCHANGED <<pc, raised, out, fs, kept, total>>
                 \/ /\ line.k = "blank"
                    /\ pos' = pos + 1
                    /\ UNCHANGED <<pc, raised, out, fs, kept, total, stats>>
                 \/ /\ line.k = "badjson"
                    /\ pos' = pos + 1
                    /\ stats' = [stats EXCEPT !.invalid_json = @ + 1]
                    /\ UNCHANGED <<pc, raised, out, fs, kept, total>>
                 \/ /\ line.k = "cut"
                    /\ pos' = pos + 1
                    /\ total' = total + 1
                    /\ UNCHANGED <<pc, raised>>
                    /\ IF empty /\ ~args.keep_empty_text
                       THEN \* lines 264-271
                            /\ stats' = st3
                            /\ UNCHANGED <<kept, out, fs>>
                       ELSE IF ~MeetsDuration(obj.duration, args.min_duration)
                       THEN \* lines 274-279
                            /\ stats' = IF obj.duration.k = "num"
                                        THEN [st3 EXCEPT !.too_short_duration = @ + 1]
                                        ELSE st3
                            /\ UNCHANGED <<kept, out, fs>>
                       ELSE IF MatchesTarget(obj, args)
                       THEN \* lines 282-286
                            /\ stats' = st3
                            /\ kept' = kept + 1
                            /\ WriteOut(CutLine(Cleaned(obj)))
                       ELSE /\ stats' = st3
                            /\ UNCHANGED <<kept, out, fs>>
    /\ UNCHANGED <<run, tool, args, fs0, status, multi>>

\* the reader is exhausted
CM_EndLoop ==
    /\ tool \in {"check_manifest", "check_manifest2"} /\ pc = "loop"
    /\ fs[InPath(args)].exists
    /\ pos > Len(fs[InPath(args)].data)
    /\ pc' = "finally"
    /\ UNCHANGED <<run, tool, args, fs, fs0, pos, out, kept, total, stats, raised, status, multi>>

\* check_manifest2 lines 290-331 (check_manifest lines 102-147): the output
\* handle is closed; then the summary is printed, or the exception that left
\* the loop ends the process with the traceback's status 1
CM_Finally ==
    /\ tool \in {"check_manifest", "check_manifest2"} /\ pc = "finally"
    /\ status' = IF raised.at = "loop" THEN 1 ELSE 0
    /\ pc' = "done"
    /\ UNCHANGED <<run, tool, args, fs, fs0, pos, out, kept, total, stats, raised, multi>>

CM_Next ==
    \/ CM_Move
    \/ CM_CountOnly
    \/ CM_OpenWriter
    \/ CM1_Line
    \/ CM2_Line
    \/ CM_EndLoop
    \/ CM_Finally

SpecCheck == CM_Init /\ [][CM_Next]_vars

(***************************************************************************)
(* Paths of patch_tsv_paths.py.  A path is a sequence of units: "/", ".",  *)
(* "SP" (a space) and the words "data", "media", "_wav_24k", "clip",       *)
(* "flac", "wav", "2", which hold neither a slash, a dot nor a space and   *)
(* of which none begins with the first character of another.               *)
(***************************************************************************)
PathUnits == {"/", ".", "SP", "data", "media", "_wav_24k", "clip", "flac", "wav", "2"}

\* s.startswith(pre)
StartsWith(s, pre) == Len(pre) <= Len(s) /\ SubSeq(s, 1, Len(pre)) = pre

\* s[n:], for n counted from 0
DropFirst(s, n) == SubSeq(s, n + 1, Len(s))

\* s.split("/"): the segments between the slashes
RECURSIVE SplitFrom(_, _, _)
SplitFrom(done, cur, s) ==
    IF s = <<>> THEN Append(done, cur)
    ELSE IF Head(s) = "/"
         THEN SplitFrom(Append(done, cur), <<>>, Tail(s))
         ELSE SplitFrom(done, Append(cur, Head(s)), Tail(s))

SplitSlash(s) == SplitFrom(<<>>, <<>>, s)

\* "/".join(segs)
RECURSIVE JoinSlash(_)
JoinSlash(segs) ==
    IF segs = <<>> THEN <<>>
    ELSE IF Len(segs) = 1 THEN segs[1]
    ELSE segs[1] \o <<"/">> \o JoinSlash(Tail(segs))

\* normalize_path(p): lines 14-23
normalize_path(p) ==
    LET prefix == IF StartsWith(p, <<"/", "/">>) THEN <<"/", "/">>
                  ELSE IF StartsWith(p, <<"/">>) THEN <<"/">>
                  ELSE <<>>
        rest == DropFirst(p, Len(prefix))
    IN  prefix \o JoinSlash(SelectSeq(SplitSlash(rest), LAMBDA seg : seg # <<>>))

\* s.rstrip("/")
RECURSIVE RStripSlash(_)
RStripSlash(s) ==
    IF s # <<>> /\ s[Len(s)] = "/" THEN RStripSlash(SubSeq(s, 1, Len(s) - 1)) ELSE s

\* s.replace(pat, rep) for a non-empty pat: leftmost non-overlapping matches
RECURSIVE ReplaceAll(_, _, _)
ReplaceAll(s, pat, rep) ==
    IF s = <<>> THEN <<>>
    ELSE IF StartsWith(s, pat) THEN rep \o ReplaceAll(DropFirst(s, Len(pat)), pat, rep)
    ELSE <<Head(s)>> \o ReplaceAll(Tail(s), pat, rep)

\* str.strip() of a path: the spaces at both ends
RECURSIVE StripSpaces(_)
StripSpaces(s) ==
    IF s # <<>> /\ Head(s) = "SP" THEN StripSpaces(Tail(s))
    ELSE IF s # <<>> /\ s[Len(s)] = "SP" THEN StripSpaces(SubSeq(s, 1, Len(s) - 1))
    ELSE s

\* PurePosixPath(p).root: two leading slashes are kept, three or more are one
PosixRoot(p) ==
    IF StartsWith(p, <<"/", "/">>) /\ ~StartsWith(p, <<"/", "/", "/">>)
    THEN <<"/", "/">>
    ELSE IF StartsWith(p, <<"/">>) THEN <<"/">>
    ELSE <<>>

\* the components of PurePosixPath(p) after the root: empty segments and "."
\* segments are dropped
PosixParts(p) ==
    SelectSeq(SplitSlash(p), LAMBDA seg : seg # <<>> /\ seg # <<".">>)

\* the index of the last "." of a name, 0 when there is none
RECURSIVE LastDot(_)
LastDot(name) ==
    IF name = <<>> THEN 0
    ELSE IF name[Len(name)] = "." THEN Len(name)
    ELSE LastDot(SubSeq(name, 1, Len(name) - 1))

\* PurePosixPath.stem: the name without its suffix; a dot that starts or ends
\* the name starts no suffix
PosixStem(name) ==
    LET i == LastDot(name)
    IN  IF 1 < i /\ i < Len(name) THEN SubSeq(name, 1, i - 1) ELSE name

\* transform_path(path, old_root, new_root, force_ext): lines 25-49.
\* ok is FALSE when PurePosixPath.with_name raises ValueError (the path has
\* no final name: "/" or ".").
transform_path(path, old_root, new_root, force_ext) ==
    LET original == StripSpaces(path)
        old_root_norm == normalize_path(RStripSlash(old_root))
        new_root_norm == normalize_path(RStripSlash(new_root))
        p_norm == normalize_path(original)
        replaced ==
            IF old_root_norm # <<>> /\ StartsWith(p_norm, old_root_norm)
            THEN new_root_norm \o DropFirst(p_norm, Len(old_root_norm))
            ELSE ReplaceAll(p_norm, <<"/", "media", "/">>,
                            <<"/", "media", "_wav_24k", "/">>)
        root == PosixRoot(replaced)
        parts == PosixParts(replaced)
        new_name == PosixStem(parts[Len(parts)]) \o force_ext
        renamed == root \o JoinSlash(SubSeq(parts, 1, Len(parts) - 1) \o <<new_name>>)
    IN  IF original = <<>> THEN [ok |-> TRUE, path |-> original]
        ELSE IF parts = <<>> THEN [ok |-> FALSE, path |-> <<>>]
        ELSE [ok |-> TRUE, path |-> normalize_path(renamed)]

(***************************************************************************)
(* fix_missing_tsv_path.py and patch_tsv_paths.py                          *)
(*                                                                         *)
(* A table is a sequence of rows; a row is a sequence of columns (what     *)
(* csv.reader yields), or bytes that are not UTF-8; a column is a sequence *)
(* of path units.                                                          *)
(***************************************************************************)
Row(cols) == [k |-> "row", cols |-> cols]
BadUtf8Row == [k |-> "badutf8", cols |-> <<>>]

\* the default of --path-col
PATH_COL == 2

\* the defaults' shape of --old-root and --new-root: new_root is old_root
\* followed by _wav_24k
OLD_ROOT == <<"/", "data", "/", "media">>
NEW_ROOT == <<"/", "data", "/", "media", "_wav_24k">>

\* force_ext=".wav"
FORCE_EXT == <<".", "wav">>

PathClip == <<"/", "data", "/", "media", "/", "/", "clip", ".", "flac">>
PathWav == <<"/", "data", "/", "media", "_wav_24k", "/", "clip", ".", "wav">>
PathMedia2 == <<"/", "data", "/", "media", "2", "/", "clip", ".", "flac">>
PathRoot == <<"/">>

\* the audio files on disk: os.path.isfile(path) and os.stat(path).st_size
AudioSize(path) ==
    CASE path = PathClip -> 1
      [] path = PathMedia2 -> 0
      [] OTHER -> -1

RowOf(path) == Row(<<<<"clip">>, <<"data">>, path>>)

\* the rows a table of the model may hold
TsvRows ==
    {Row(<<>>), Row(<<<<"clip">>>>), RowOf(PathClip), RowOf(PathWav),
     RowOf(PathMedia2), RowOf(PathRoot), BadUtf8Row}

\* the tables named on the command line, and the files beside them
TsvFiles == <<"a.tsv", "b.tsv">>
BackupOf(infile) == IF infile = "a.tsv" THEN "a.tsv.bak" ELSE "b.tsv.bak"
\* tmp.name: NamedTemporaryFile is given no dir, so the file is created in the
\* default temporary directory
TmpName(i) == IF i = 1 THEN "/tmp/tmp1" ELSE "/tmp/tmp2"
TsvPaths ==
    {TsvFiles[i] : i \in 1..Len(TsvFiles)}
        \cup {BackupOf(TsvFiles[i]) : i \in 1..Len(TsvFiles)}
        \cup {TmpName(i) : i \in 1..Len(TsvFiles)}

\* same_fs: whether the default temporary directory is on the file system
\* of the tables (shutil.move renames) or not (shutil.move copies, then
\* unlinks the source)
TsvArgs ==
    [tsv : {TsvFiles}, path_col : {PATH_COL}, old_root : {OLD_ROOT},
     new_root : {NEW_ROOT}, inplace : BOOLEAN, backup_suffix : {"", ".bak"},
     dry_run : BOOLEAN, same_fs : BOOLEAN]

\* the state of main() and of the call of clean_tsv / patch_tsv in progress:
\*   i        the index of the table being processed
\*   overall  overall_rc (overall)
\*   rcs      the result each finished call returned
\*   rc       exit_code of the call in progress
\*   errors   the tables for which an ERROR line was printed
\*   kept, dropped, skipped   the counters of clean_tsv
\*   total_kept, total_dropped, total_skipped   the sums main() keeps
Multi0 ==
    [i |-> 1, overall |-> 0, rcs |-> <<>>, rc |-> 0, errors |-> {},
     kept |-> 0, dropped |-> 0, skipped |-> 0,
     total_kept |-> 0, total_dropped |-> 0, total_skipped |-> 0]

IsTsvTool == tool \in {"fix_missing_tsv_path", "patch_tsv_paths"}

\* inplace and not dry_run: the call writes a temporary file
Rewrites(a) == a.inplace /\ ~a.dry_run

\* infile of the call in progress
Infile == args.tsv[multi.i]

TSV_Init ==
    /\ run = 1
    /\ tool \in {"fix_missing_tsv_path", "patch_tsv_paths"}
    /\ args \in {a \in TsvArgs :
                    /\ ~a.inplace => ~a.dry_run
                    /\ ~Rewrites(a) => a.backup_suffix = ".bak" /\ a.same_fs}
    /\ \E ta \in {Absent} \cup {File(d) : d \in SeqsUpTo(TsvRows, MaxRows)},
          tb \in {Absent, File(<<RowOf(PathClip)>>)},
          oldbak \in {Absent, File(<<RowOf(PathWav)>>)} :
          /\ ~(Rewrites(args) /\ args.backup_suffix # "") => oldbak = Absent
          /\ fs = [p \in TsvPaths |->
                      CASE p = "a.tsv" -> ta
                        [] p = "b.tsv" -> tb
                        [] p = "a.tsv.bak" -> oldbak
                        [] OTHER -> Absent]
    /\ fs0 = fs
    /\ pc = "file"
    /\ pos = 1
    /\ out = <<>>
    /\ kept = 0
    /\ total = 0
    /\ stats = ZeroStats
    /\ raised = NoExc
    /\ status = 0
    /\ multi = Multi0

\* main() takes the result of the finished call (fix_missing_tsv_path lines
\* 93-104, patch_tsv_paths lines 141-151) and goes on to the next table
Returned(m, rc) ==
    [m EXCEPT !.i = @ + 1,
              !.overall = IF @ = 1 \/ rc = 1 THEN 1 ELSE 0,
              !.rcs = Append(@, rc),
              !.rc = 0,
              !.total_kept = @ + m.kept,
              !.total_dropped = @ + m.dropped,
              !.total_skipped = @ + m.skipped]

\* clean_tsv lines 13-26, patch_tsv lines 61-74: a path that is no file ends
\* the call with 1; else the output is a new temporary file or stdout
TSV_Enter ==
    /\ IsTsvTool /\ pc = "file"
    /\ multi.i <= Len(args.tsv)
    /\ IF ~fs[Infile].exists
       THEN /\ multi' = Returned([multi EXCEPT !.errors = @ \cup {multi.i},
                                               !.kept = 0, !.dropped = 0,
                                               !.skipped = 0], 1)
            /\ UNCHANGED <<fs, pc, pos, out>>
       ELSE /\ multi' = [multi EXCEPT !.rc = 0, !.kept = 0, !.dropped = 0,
                                      !.skipped = 0]
            /\ fs' = IF Rewrites(args)
                     THEN [fs EXCEPT ![TmpName(multi.i)] = File(<<>>)]
                     ELSE fs
            /\ pc' = "rows"
            /\ pos' = 1
            /\ out' = <<>>
    /\ UNCHANGED <<run, tool, args, fs0, kept, total, stats, raised, status>>

\* writer.writerow(row): the row goes to the buffer of the output handle,
\* and the buffer may or may not reach the temporary file now
WriteRow(row) ==
    /\ out' = Append(out, row)
    /\ IF Rewrites(args)
       THEN \/ fs' = [fs EXCEPT ![TmpName(multi.i)] = File(Append(out, row))]
            \/ UNCHANGED fs
       ELSE UNCHANGED fs

\* an exception leaves clean_tsv / patch_tsv and main(), which catch none:
\* the process ends with the traceback's status 1
Uncaught(exc) ==
    /\ raised' = Exc("rows", exc)
    /\ status' = 1
    /\ pc' = "done"
    /\ UNCHANGED <<pos, out, fs, multi>>

\* a variant of the row step of clean_tsv in which a short row is counted
\* with the dropped rows
FX_Row_short_as_dropped ==
    /\ tool = "fix_missing_tsv_path" /\ pc = "rows"
    /\ pos <= Len(fs[Infile].data)
    /\ LET row == fs[Infile].data[pos].cols
           path == StripSpaces(row[args.path_col + 1])
       IN  \/ Uncaught("OSError")
           \/ DecodeFails(fs[Infile].data, pos) /\ Uncaught("UnicodeDecodeError")
           \/ /\ fs[Infile].data[pos].k = "row"
              /\ pos' = pos + 1
              /\ UNCHANGED <<raised, status, pc>>
              /\ IF Len(row) > args.path_col /\ path # <<>> /\ AudioSize(path) > 0
                 THEN /\ multi' = [multi EXCEPT !.kept = @ + 1]
                      /\ WriteRow(fs[Infile].data[pos])
                 ELSE /\ multi' = [multi EXCEPT !.dropped = @ + 1]
                      /\ UNCHANGED <<out, fs>>
    /\ UNCHANGED <<run, tool, args, fs0, kept, total, stats>>

\* clean_tsv lines 31-51: one row
FX_Row ==
    /\ tool = "fix_missing_tsv_path" /\ pc = "rows"
    /\ pos <= Len(fs[Infile].data)
    /\ LET row == fs[Infile].data[pos].cols
           path == StripSpaces(row[args.path_col + 1])
       IN  \/ Uncaught("OSError")
           \/ DecodeFails(fs[Infile].data, pos) /\ Uncaught("UnicodeDecodeError")
           \/ /\ fs[Infile].data[pos].k = "row"
              /\ pos' = pos + 1
              /\ UNCHANGED <<raised, status, pc>>
              /\ IF row = <<>> \/ Len(row) <= args.path_col
                 THEN /\ multi' = [multi EXCEPT !.skipped = @ + 1]
                      /\ UNCHANGED <<out, fs>>
                 ELSE IF path # <<>> /\ AudioSize(path) > 0
                 THEN /\ multi' = [multi EXCEPT !.kept = @ + 1]
                      /\ WriteRow(fs[Infile].data[pos])
                 ELSE /\ multi' = [multi EXCEPT !.dropped = @ + 1]
                      /\ UNCHANGED <<out, fs>>
    /\ UNCHANGED <<run, tool, args, fs0, kept, total, stats>>

\* patch_tsv lines 79-101: one row
PT_Row ==
    /\ tool = "patch_tsv_paths" /\ pc = "rows"
    /\ pos <= Len(fs[Infile].data)
    /\ LET row == fs[Infile].data[pos].cols
           new_path == transform_path(row[args.path_col + 1], args.old_root,
                                      args.new_root, FORCE_EXT)
       IN  \/ Uncaught("OSError")
           \/ DecodeFails(fs[Infile].data, pos) /\ Uncaught("UnicodeDecodeError")
           \/ /\ fs[Infile].data[pos].k = "row"
              /\ IF row = <<>> \/ Len(row) <= args.path_col
                 THEN /\ pos' = pos + 1
                      /\ WriteRow(fs[Infile].data[pos])
                      /\ UNCHANGED <<raised, status, pc, multi>>
                 ELSE IF ~new_path.ok
                 THEN Uncaught("ValueError")
                 ELSE /\ pos' = pos + 1
                      /\ WriteRow(Row([row EXCEPT ![args.path_col + 1] = new_path.path]))
                      /\ UNCHANGED <<raised, status, pc, multi>>
    /\ UNCHANGED <<run, tool, args, fs0, kept, total, stats>>

\* the reader is exhausted and the input is closed (clean_tsv line 53,
\* patch_tsv line 103)
TSV_EndRows ==
    /\ IsTsvTool /\ pc = "rows"
    /\ pos > Len(fs[Infile].data)
    /\ pc' = IF ~Rewrites(args) THEN "return"
             ELSE IF args.backup_suffix # "" THEN "backup"
             ELSE "replace"
    /\ UNCHANGED <<run, tool, args, fs, fs0, pos, out, kept, total, stats, raised, status, multi>>

\* the except clause of the backup step: the error is printed; patch_tsv also
\* sets exit_code = 1 (line 112), clean_tsv does not
BackupFailed ==
    /\ multi' = [multi EXCEPT !.errors = @ \cup {multi.i},
                              !.rc = IF tool = "patch_tsv_paths" THEN 1 ELSE @]
    /\ pc' = "replace"
    /\ UNCHANGED fs

\* clean_tsv lines 55-58, patch_tsv lines 105-108: a backup that exists is
\* removed
TSV_RemoveOldBackup ==
    /\ IsTsvTool /\ pc = "backup"
    /\ IF fs[BackupOf(Infile)].exists
       THEN \/ /\ fs' = [fs EXCEPT ![BackupOf(Infile)] = Absent]
               /\ pc' = "move"
               /\ UNCHANGED multi
            \/ BackupFailed
       ELSE /\ pc' = "move"
            /\ UNCHANGED <<fs, multi>>
    /\ UNCHANGED <<run, tool, args, fs0, pos, out, kept, total, stats, raised, status>>

\* clean_tsv line 59, patch_tsv line 109: move(infile, backup_path)
TSV_MoveToBackup ==
    /\ IsTsvTool /\ pc = "move"
    /\ \/ /\ fs' = [fs EXCEPT ![BackupOf(Infile)] = fs[Infile], ![Infile] = Absent]
          /\ pc' = "replace"
          /\ UNCHANGED multi
       \/ BackupFailed
    /\ UNCHANGED <<run, tool, args, fs0, pos, out, kept, total, stats, raised, status>>

\* clean_tsv lines 62-65, patch_tsv lines 113-117: move(tmpfile, infile), with
\* the temporary file still open and its buffer not flushed.  On one file
\* system the file is renamed and gets the buffered rows when the handle is
\* dropped at the return; across file systems the bytes on disk are copied
\* and the source is unlinked.  A move that raises prints the error; patch_tsv
\* also sets exit_code = 1, clean_tsv does not.
TSV_Replace ==
    /\ IsTsvTool /\ pc = "replace"
    /\ \/ /\ fs' = [fs EXCEPT ![Infile] = IF args.same_fs THEN File(out)
                                          ELSE fs[TmpName(multi.i)],
                              ![TmpName(multi.i)] = Absent]
          /\ UNCHANGED multi
       \/ /\ fs' = [fs EXCEPT ![TmpName(multi.i)] = File(out)]
          /\ multi' = [multi EXCEPT !.errors = @ \cup {multi.i},
                                    !.rc = IF tool = "patch_tsv_paths" THEN 1 ELSE @]
    /\ pc' = "return"
    /\ UNCHANGED <<run, tool, args, fs0, pos, out, kept, total, stats, raised, status>>

\* clean_tsv lines 67-68, patch_tsv line 119: the call returns
TSV_Return ==
    /\ IsTsvTool /\ pc = "return"
    /\ multi' = Returned(multi, multi.rc)
    /\ pc' = "file"
    /\ UNCHANGED <<run, tool, args, fs, fs0, pos, out, kept, total, stats, raised, status>>

\* fix_missing_tsv_path lines 106-118, patch_tsv_paths line 152: sys.exit
TSV_Exit ==
    /\ IsTsvTool /\ pc = "file"
    /\ multi.i > Len(args.tsv)
    /\ status' = multi.overall
    /\ pc' = "done"
    /\ UNCHANGED <<run, tool, args, fs, fs0, pos, out, kept, total, stats, raised, multi>>

TSV_Next ==
    \/ TSV_Enter
    \/ FX_Row
    \/ PT_Row
    \/ TSV_EndRows
    \/ TSV_RemoveOldBackup
    \/ TSV_MoveToBackup
    \/ TSV_Replace
    \/ TSV_Return
    \/ TSV_Exit

SpecTsv == TSV_Init /\ [][TSV_Next]_vars

(***************************************************************************)
(* All the tools.                                                          *)
(***************************************************************************)
Init == FM_Init \/ CM_Init \/ TSV_Init

Next == FM_Next \/ CM_Next \/ TSV_Next

Spec == Init /\ [][Next]_vars

(***************************************************************************)
(* Runs in place on the same file, one after the other.                    *)
(***************************************************************************)
\* the run rewrites its input: filter_manifest without another --output, the
\* check tools with --fix, the TSV tools with --inplace and no --dry-run
RewritesInput ==
    CASE tool = "filter_manifest" -> InPlace(args)
      [] tool \in {"check_manifest", "check_manifest2"} -> args.fix
      [] tool \in {"fix_missing_tsv_path", "patch_tsv_paths"} -> Rewrites(args)
      [] OTHER -> FALSE

\* the tool is started again with the same command line after a run that
\* ended with status 0.  int(time.time()) of the new run is that of the run
\* before, or a later one: then BACKUP names a new path and the backup of
\* the run before is an earlier one (the model keeps one earlier backup).
Rerun ==
    /\ pc = "done" /\ status = 0 /\ raised = NoExc
    /\ RewritesInput
    /\ run < MaxRuns
    /\ run' = run + 1
    /\ pc' = IF tool \in {"fix_missing_tsv_path", "patch_tsv_paths"}
             THEN "file" ELSE "start"
    /\ pos' = 1
    /\ out' = <<>>
    /\ kept' = 0
    /\ total' = 0
    /\ stats' = ZeroStats
    /\ multi' = IF tool \in {"fix_missing_tsv_path", "patch_tsv_paths"}
                THEN Multi0 ELSE NoMulti
    /\ \/ UNCHANGED fs
       \/ /\ tool \in {"filter_manifest", "check_manifest", "check_manifest2"}
          /\ fs[BACKUP].exists /\ ~fs[BACKUP_EARLIER].exists
          /\ fs' = [fs EXCEPT ![BACKUP_EARLIER] = fs[BACKUP], ![BACKUP] = Absent]
    /\ UNCHANGED <<tool, args, fs0, raised, status>>

RR_Next == Next \/ Rerun

SpecRerun == Init /\ [][RR_Next]_vars

(***************************************************************************)
(* Claims about filter_manifest.py                                         *)
(***************************************************************************)

\* C1: once a failure was raised while filter_manifest read records or wrote
\* the temporary file, the destination path (the input when in place, else
\* --output) holds the content it held before the run, and the process ends
\* with the failure status 2.
Thm_C1_FailureLeavesDestination ==
    (tool = "filter_manifest" /\ raised.at = "loop") =>
        /\ fs[OutputPath(args)] = fs0[OutputPath(args)]
        /\ pc = "done" => status = 2

\* a run that had written a record to the temporary file when a later line
\* failed, over an output path that held a file before
Wit_C1 ==
    /\ tool = "filter_manifest" /\ pc = "done" /\ raised.at = "loop"
    /\ out # <<>>
    /\ fs0[OutputPath(args)].exists

\* C4: filter_manifest ends with status 3 exactly when the run read its input
\* without failure, kept nothing and --keep-empty is not given; then the
\* destination is untouched, the temporary file is gone and the backup of an
\* in-place run remains.  With --keep-empty a run that kept nothing and whose
\* replace succeeded ends with status 0 and an empty destination file.
Thm_C4_EmptyOutputPolicy ==
    (tool = "filter_manifest" /\ pc = "done") =>
        /\ status = 3 <=>
              (raised = NoExc /\ fs0[args.input].exists
                  /\ kept = 0 /\ ~args.keep_empty)
        /\ status = 3 =>
              /\ fs[OutputPath(args)] = fs0[OutputPath(args)]
              /\ ~fs[TMP].exists
              /\ InPlace(args) => fs[BACKUP] = fs0[args.input]
        /\ (raised = NoExc /\ fs0[args.input].exists
               /\ kept = 0 /\ args.keep_empty) =>
              /\ status = 0
              /\ fs[OutputPath(args)] = File(<<>>)
        /\ raised.at = "loop" => status = 2

\* an in-place run over records that were all dropped, without --keep-empty
Wit_C4 ==
    /\ tool = "filter_manifest" /\ pc = "done" /\ status = 3
    /\ InPlace(args) /\ total > 0
    /\ fs[BACKUP].exists

(***************************************************************************)
(* Claims about the rewriting discipline of all the tools                  *)
(***************************************************************************)
IsCheckTool == tool \in {"check_manifest", "check_manifest2"}

IsManifestTool == tool = "filter_manifest" \/ IsCheckTool

\* the manifest the run was given, as it was before the run
Input0 == IF tool = "filter_manifest" THEN fs0[args.input] ELSE fs0[args.manifest]

\* the number of lines of one kind
CountKind(data, k) == Len(SelectSeq(data, LAMBDA l : l.k = k))

\* C2: check_manifest and check_manifest2 with --fix: after an exception in
\* the streaming loop the manifest path holds the content it held before the
\* run (not a missing, empty or partial file).
CE_C2_FixFailureKeepsManifest ==
    (IsCheckTool /\ args.fix /\ raised.at = "loop" /\ pc = "done") =>
        fs[args.manifest] = fs0[args.manifest]

\* the paths an in-place run rewrites
Destinations ==
    IF tool = "filter_manifest" THEN (IF InPlace(args) THEN {args.input} ELSE {})
    ELSE IF IsCheckTool THEN (IF args.fix THEN {args.manifest} ELSE {})
    ELSE IF Rewrites(args) THEN {args.tsv[j] : j \in 1..Len(args.tsv)}
    ELSE {}

\* the run has finished writing the new content of destination d
Finished(d) ==
    IF IsTsvTool
    THEN \E j \in 1..Len(args.tsv) :
            /\ args.tsv[j] = d
            /\ multi.i > j \/ (multi.i = j /\ pc = "return")
    ELSE pc = "done"

\* C3: in every in-place rewrite, at every state of the run the destination
\* exists and holds the complete original content or the complete new
\* content.
CE_C3_DestinationOldOrNew ==
    \A d \in Destinations :
        fs0[d].exists =>
            /\ fs[d].exists
            /\ fs[d] # fs0[d] => Finished(d) /\ fs[d] = File(out)

\* the temporary files of the tools
TempPaths == {TMP} \cup {TmpName(j) : j \in 1..Len(TsvFiles)}

\* the run has ended and a step of it failed
RunFailed ==
    /\ pc = "done"
    /\ \/ raised # NoExc
       \/ status # 0
       \/ IsTsvTool /\ multi.errors # {}

\* C5: after a run that fails at any step, no temporary file the run created
\* remains on disk.
CE_C5_NoTempLeftAfterFailure ==
    RunFailed => \A p \in TempPaths \cap DOMAIN fs : ~fs[p].exists

\* C6: fix_missing_tsv_path and patch_tsv_paths, --inplace with a backup
\* suffix: whenever a table has been replaced by rewritten content, its
\* backup holds the complete original content.
CE_C6_ReplacedImpliesBackup ==
    (IsTsvTool /\ Rewrites(args) /\ args.backup_suffix # "") =>
        \A j \in 1..Len(args.tsv) :
            (fs0[args.tsv[j]].exists /\ fs[args.tsv[j]] # fs0[args.tsv[j]]
                /\ fs[args.tsv[j]].exists)
            => fs[BackupOf(args.tsv[j])] = fs0[args.tsv[j]]

\* C7: fix_missing_tsv_path and patch_tsv_paths over several tables: a table
\* whose processing failed has a non-zero result, the exit status is then
\* non-zero, and every table on the command line has been processed.
CE_C7_FailureReportedOthersProcessed ==
    (IsTsvTool /\ pc = "done") =>
        /\ multi.i = Len(args.tsv) + 1
        /\ \A j \in multi.errors : j <= Len(multi.rcs) /\ multi.rcs[j] # 0
        /\ (multi.errors # {} \/ raised # NoExc) => status # 0

\* C8: in every manifest tool a line that is not valid UTF-8 raises nothing;
\* it is counted once under decode errors and the rest of the file is read.
CE_C8_BadUtf8SkippedAndCounted ==
    IsManifestTool =>
        /\ raised.exc # "UnicodeDecodeError"
        /\ (pc = "done" /\ raised = NoExc /\ Input0.exists) =>
              stats.decode_errors = CountKind(Input0.data, "badutf8")

\* C9: check_manifest2: every non-blank line is counted in exactly one of
\* decode_errors, invalid_json and total, and total is kept plus the sum of
\* the rejection counters.
CE_C9_EveryRecordAccounted ==
    (tool = "check_manifest2" /\ pc = "done" /\ raised = NoExc /\ Input0.exists) =>
        /\ Len(Input0.data) - CountKind(Input0.data, "blank")
              = stats.decode_errors + stats.invalid_json + total
        /\ total = kept + stats.empty_text_after_norm + stats.too_short_duration

\* the cuts of a manifest whose duration is a number below min_duration
TooShort(data, min_duration) ==
    Len(SelectSeq(data, LAMBDA l :
            /\ l.k = "cut"
            /\ l.obj.duration.k = "num"
            /\ l.obj.duration.v < min_duration))

\* C10: check_manifest2 applies the duration rule before the empty-text
\* rule: every record with a duration below min_duration is counted as a
\* duration rejection, also when all of its texts are empty after
\* normalization.
CE_C10_DurationBeforeEmptyText ==
    (tool = "check_manifest2" /\ pc = "done" /\ raised = NoExc /\ Input0.exists) =>
        stats.too_short_duration = TooShort(Input0.data, args.min_duration)

(***************************************************************************)
(* Claims about the filter rules                                           *)
(***************************************************************************)
\* the duration rule as stated: the duration is present and not below the
\* minimum and, when all supervisions must meet it, so is the duration of
\* every supervision
DurationOk(obj, min, all_sups) ==
    /\ obj.duration.k = "num" /\ obj.duration.v >= min
    /\ all_sups =>
          \A i \in 1..Len(SupsOrEmpty(obj)) :
              /\ SupsOrEmpty(obj)[i].duration.k = "num"
              /\ SupsOrEmpty(obj)[i].duration.v >= min

\* C11: duration rule: a record is rejected when its duration (or, if all
\* supervisions must meet it, a supervision's duration) is missing or below
\* the minimum, for every minimum including 0, and is not rejected by this
\* rule otherwise: filter_manifest keeps exactly the records that pass it,
\* and check_manifest2 writes only records that pass it.
CE_C11_DurationRule ==
    /\ (tool = "filter_manifest" /\ pc = "done" /\ status = 0) =>
          out = SelectSeq(Input0.data, LAMBDA l :
                    /\ l.k = "cut"
                    /\ DurationOk(l.obj, compute_min_seconds(args),
                                  args.check_supervisions))
    /\ tool = "check_manifest2" =>
          \A i \in 1..Len(out) : DurationOk(out[i].obj, args.min_duration, FALSE)

\* the record has supervisions, and the text of each is missing or empty
\* after normalization
EmptyTextRecord(obj) ==
    /\ SupsOrEmpty(obj) # <<>>
    /\ \A i \in 1..Len(SupsOrEmpty(obj)) :
          \/ SupsOrEmpty(obj)[i].text.k # "str"
          \/ normalize_text(SupsOrEmpty(obj)[i].text.v).text = <<>>

\* the records of the input that check_manifest2 keeps: the empty-text
\* policy, then the remaining rules
KeptRecords ==
    SelectSeq(Input0.data, LAMBDA l :
        /\ l.k = "cut"
        /\ EmptyTextRecord(l.obj) => args.keep_empty_text
        /\ MeetsDuration(l.obj.duration, args.min_duration)
        /\ MatchesTarget(l.obj, args))

LinesRead == SubSeq(Input0.data, 1, pos - 1)

\* the sum of f over the set S
RECURSIVE SumOver(_, _)
SumOver(f, S) ==
    IF S = {} THEN 0
    ELSE LET x == CHOOSE y \in S : TRUE IN f[x] + SumOver(f, S \ {x})

\* the cut is counted under channel bucket key: its channel is the list key,
\* or the scalar that is the only element of key
InBucket(obj, key) ==
    \/ obj.channel.k = "list" /\ obj.channel.v = key
    \/ obj.channel.k = "int" /\ Len(key) = 1 /\ obj.channel.v[1] = key[1]

\* C13: channel statistics: a record with the scalar channel c is counted in
\* the bucket of [c]; a record without a channel is counted in no bucket but
\* in total, so the buckets sum to total minus the records without a channel.
Thm_C13_ChannelBuckets ==
    (IsCheckTool /\ Input0.exists) =>
        /\ total = CountKind(LinesRead, "cut")
        /\ \A key \in DOMAIN stats.channels :
              stats.channels[key] =
                  Len(SelectSeq(LinesRead, LAMBDA l :
                          l.k = "cut" /\ InBucket(l.obj, key)))
        /\ SumOver(stats.channels, DOMAIN stats.channels) =
              total - Len(SelectSeq(LinesRead, LAMBDA l :
                              l.k = "cut" /\ l.obj.channel.k = "missing"))

\* a finished run over a record with the scalar channel 0 and a record
\* without a channel
Wit_C13 ==
    /\ IsCheckTool /\ pc = "done" /\ raised = NoExc
    /\ Input0 = File(<<CutLine(CutScalarCh), CutLine(CutBare)>>)
    /\ stats.channels[<<0>>] = 1
    /\ total = 2

\* the nested sampling rate is the target rate and the raw channel value is
\* the target list
ExactMatch(obj) ==
    /\ obj.sampling_rate.k = "num"
    /\ obj.sampling_rate.v = args.target_sampling_rate
    /\ obj.channel.k = "list"
    /\ obj.channel.v = args.target_channel

\* C14: rate/channel filter of check_manifest and check_manifest2: a record
\* is kept only if its sampling rate equals the target rate and its raw
\* channel value equals the target list (a scalar channel, a missing rate or
\* a missing channel never match); check_manifest --fix keeps exactly those.
Thm_C14_ExactRateChannel ==
    (IsCheckTool /\ Input0.exists) =>
        /\ \A i \in 1..Len(out) : ExactMatch(out[i].obj)
        /\ kept <= Len(SelectSeq(LinesRead, LAMBDA l :
                           l.k = "cut" /\ ExactMatch(l.obj)))
        /\ (tool = "check_manifest" /\ args.fix) =>
              kept = Len(SelectSeq(LinesRead, LAMBDA l :
                             l.k = "cut" /\ ExactMatch(l.obj)))

\* a finished --fix run over a record with the scalar channel 0, which is
\* not kept, and a record with the channel [0], which is
Wit_C14 ==
    /\ IsCheckTool /\ pc = "done" /\ raised = NoExc /\ args.fix
    /\ Input0 = File(<<CutLine(CutScalarCh), CutLine(CutOk)>>)
    /\ kept = 1 /\ Len(out) = 1 /\ total = 2

\* normalization changes the text of a supervision of the record
TextChanged(obj) ==
    \E i \in 1..Len(SupsOrEmpty(obj)) :
        /\ SupsOrEmpty(obj)[i].text.k = "str"
        /\ normalize_text(SupsOrEmpty(obj)[i].text.v).text
              # SupsOrEmpty(obj)[i].text.v

\* the normalization tallies of the records among lines whose text changed,
\* kept or not
RECURSIVE NormTotals(_)
NormTotals(lines) ==
    IF lines = <<>> THEN ZeroNorm
    ELSE AddNorm(IF Head(lines).k = "cut" /\ TextChanged(Head(lines).obj)
                 THEN EntryNormStats(SupsOrEmpty(Head(lines).obj))
                 ELSE ZeroNorm,
                 NormTotals(Tail(lines)))

\* C15: check_manifest2 normalizes the texts of every parsed record and adds
\* its tallies to the run totals (when a text changed) before any filter
\* decision: the totals cover every record read, dropped records included.
Thm_C15_NormalizationBeforeFilters ==
    (tool = "check_manifest2" /\ Input0.exists) =>
        /\ stats.normalized_entries =
              Len(SelectSeq(LinesRead, LAMBDA l :
                      l.k = "cut" /\ TextChanged(l.obj)))
        /\ stats.agg_norm_stats = NormTotals(LinesRead)

\* a finished run that dropped, for its duration, a record whose text
\* normalization changed, and counted its tallies
Wit_C15 ==
    /\ tool = "check_manifest2" /\ pc = "done" /\ raised = NoExc
    /\ Input0 = File(<<CutLine(CutShortFancy)>>)
    /\ kept = 0 /\ stats.too_short_duration = 1
    /\ stats.normalized_entries = 1
    /\ stats.agg_norm_stats.zero_width_removed = 1

(***************************************************************************)
(* normalize_text as a program of its own: a text is drawn, normalize_text *)
(* is called on it, and called again on the text it returned.              *)
(***************************************************************************)
\* the code points the texts of this specification are made of
NormChars ==
    {"h", "e", "U+0301", "U+200B", "FF", "U+0001", "U+0085", "U+2026",
     "U+00A0", "U+201C", "SP", "LF"}

NT_Init ==
    /\ run = 1
    /\ tool = "normalize_text"
    /\ args \in [s : SeqsUpTo(NormChars, MaxText)]
    /\ fs = <<>>
    /\ fs0 = <<>>
    /\ pc = "start"
    /\ pos = 0
    /\ out = args.s
    /\ kept = 0
    /\ total = 0
    /\ stats = ZeroNorm
    /\ raised = NoExc
    /\ status = 0
    /\ multi = NoMulti

\* new_txt, st = normalize_text(txt)
NT_Normalize ==
    /\ tool = "normalize_text" /\ pc = "start"
    /\ out' = normalize_text(out).text
    /\ stats' = normalize_text(out).stats
    /\ pos' = pos + 1
    /\ pc' = "once"
    /\ UNCHANGED <<run, tool, args, fs, fs0, kept, total, raised, status, multi>>

\* normalize_text called on a text that normalize_text returned
NT_Again ==
    /\ tool = "normalize_text" /\ pc = "once"
    /\ out' = normalize_text(out).text
    /\ stats' = normalize_text(out).stats
    /\ pos' = pos + 1
    /\ pc' = "twice"
    /\ UNCHANGED <<run, tool, args, fs, fs0, kept, total, raised, status, multi>>

NT_Next ==
    \/ NT_Normalize
    \/ NT_Again

SpecNorm == NT_Init /\ [][NT_Next]_vars

(***************************************************************************)
(* Claims about normalize_text                                             *)
(***************************************************************************)
\* C16: normalize_text is idempotent: the text returned for the text that
\* normalize_text(s) returned is that text again, for every s.
CE_C16_Idempotent ==
    (tool = "normalize_text" /\ pc = "twice") =>
        out = normalize_text(args.s).text

\* the C0 and C1 control characters that are not whitespace, and the
\* zero-width formatting characters, among the code points of the model
ControlChars == {"U+0001", "U+0085"}
ZeroWidthChars == {"U+200B", "U+180E"}

\* the elements of a sequence
Range(s) == {s[i] : i \in 1..Len(s)}

\* C17: stage 3 of normalize_text removes the C0/C1 control characters and
\* the zero-width characters and tallies each under its own counter, and it
\* preserves form feed and vertical tab: a form feed between two words
\* reaches stage 4 and becomes one space.
CE_C17_ControlsRemovedFormFeedKept ==
    (tool = "normalize_text" /\ pc = "once") =>
        /\ Range(out) \cap (ControlChars \cup ZeroWidthChars) = {}
        /\ stats.controls_removed = CountIn(args.s, ControlChars)
        /\ stats.zero_width_removed = CountIn(args.s, ZeroWidthChars)
        /\ \A i \in 2..(Len(args.s) - 1) :
              (args.s[i] = "FF" /\ args.s[i-1] = "h" /\ args.s[i+1] = "h")
                  => out = <<"h", "SP", "h">>

\* the characters of the fixed symbol table among the code points of the
\* model
SymbolTableChars == {"U+201C", "U+2026", "U+00A0", "U+180E"}

\* C18: statistics of normalize_text: nbspace_to_space is the number of
\* non-breaking spaces of the input, which all become plain spaces, and
\* replaced_punct is the number of characters of the input replaced through
\* the symbol table.
CE_C18_SubstitutionCounts ==
    (tool = "normalize_text" /\ pc = "once") =>
        /\ stats.nbspace_to_space = CountIn(args.s, {"U+00A0"})
        /\ stats.replaced_punct = CountIn(args.s, SymbolTableChars)

(***************************************************************************)
(* transform_path as a program of its own: a path is drawn and             *)
(* transform_path is called on it.                                         *)
(***************************************************************************)
\* a path starts with nothing, old_root, old_root followed by more
\* characters, new_root, two slashes, or a directory named media that is not
\* under old_root; the rest is made of separators, names and dots
TP_Init ==
    /\ run = 1
    /\ tool = "transform_path"
    /\ \E prefix \in {<<>>, OLD_ROOT, OLD_ROOT \o <<"2">>, NEW_ROOT,
                      <<"/", "/", "data">>, <<"/", "clip", "/", "media">>},
          tail \in SeqsUpTo({"/", "clip", ".", "flac"}, MaxTail),
          old_root \in {OLD_ROOT, OLD_ROOT \o <<"/">>},
          new_root \in {NEW_ROOT, <<"/", "wav">>} :
          args = [path |-> prefix \o tail, old_root |-> old_root,
                  new_root |-> new_root, force_ext |-> FORCE_EXT]
    /\ fs = <<>>
    /\ fs0 = <<>>
    /\ pc = "start"
    /\ pos = 0
    /\ out = <<>>
    /\ kept = 0
    /\ total = 0
    /\ stats = ZeroStats
    /\ raised = NoExc
    /\ status = 0
    /\ multi = NoMulti

\* new_path = transform_path(old_path, old_root, new_root, force_ext); the
\* ValueError of with_name leaves the call
TP_Transform ==
    /\ tool = "transform_path" /\ pc = "start"
    /\ LET r == transform_path(args.path, args.old_root, args.new_root,
                               args.force_ext)
       IN  /\ out' = r.path
           /\ raised' = IF r.ok THEN NoExc ELSE Exc("transform_path", "ValueError")
           /\ status' = IF r.ok THEN 0 ELSE 1
    /\ pc' = "done"
    /\ UNCHANGED <<run, tool, args, fs, fs0, pos, kept, total, stats, multi>>

\* transform_path called on a path that transform_path returned, with the
\* same roots: the second run of patch_tsv_paths over a patched table
TP_Again ==
    /\ tool = "transform_path" /\ pc = "done" /\ raised = NoExc
    /\ LET r == transform_path(out, args.old_root, args.new_root,
                               args.force_ext)
       IN  /\ out' = r.path
           /\ raised' = IF r.ok THEN NoExc ELSE Exc("transform_path", "ValueError")
           /\ status' = IF r.ok THEN 0 ELSE 1
    /\ pc' = "again"
    /\ UNCHANGED <<run, tool, args, fs, fs0, pos, kept, total, stats, multi>>

TP_Next ==
    \/ TP_Transform
    \/ TP_Again

SpecPath == TP_Init /\ [][TP_Next]_vars

(***************************************************************************)
(* Claims about transform_path                                             *)
(***************************************************************************)
\* old_root is a leading prefix of path p: p is old_root, or old_root
\* followed by a separator
UnderRoot(p, root) ==
    /\ root # <<>> /\ StartsWith(p, root)
    /\ Len(p) = Len(root) \/ p[Len(root) + 1] = "/"

\* the path with the extension of its final segment forced to ext
WithExtension(p, ext) ==
    LET parts == PosixParts(p)
    IN  normalize_path(PosixRoot(p) \o
            JoinSlash(SubSeq(parts, 1, Len(parts) - 1)
                      \o <<PosixStem(parts[Len(parts)]) \o ext>>))

\* the path the rule gives: separators collapsed, old_root replaced by
\* new_root when it is a leading prefix, else the /media/ fallback, then the
\* extension forced
RewrittenPath(path, old_root, new_root, ext) ==
    LET p == normalize_path(StripSpaces(path))
        old == normalize_path(RStripSlash(old_root))
        new == normalize_path(RStripSlash(new_root))
    IN  WithExtension(
            IF UnderRoot(p, old) THEN new \o DropFirst(p, Len(old))
            ELSE ReplaceAll(p, <<"/", "media", "/">>,
                            <<"/", "media", "_wav_24k", "/">>),
            ext)

\* C19: transform_path collapses duplicate separators, replaces old_root by
\* new_root only when old_root is a leading prefix of the path (not when the
\* path merely shares its leading characters), uses the /media/ fallback
\* only otherwise, and forces the extension of the final segment;
\* /data/media//clip.flac gives /data/media_wav_24k/clip.wav.
CE_C19_PrefixRewrite ==
    (tool = "transform_path" /\ pc = "done" /\ raised = NoExc
        /\ StripSpaces(args.path) # <<>>) =>
        /\ out = RewrittenPath(args.path, args.old_root, args.new_root,
                               args.force_ext)
        /\ args.path = PathClip => out = PathWav

(***************************************************************************)
(* Claims about short rows of a table                                      *)
(***************************************************************************)
\* a call of clean_tsv / patch_tsv is in progress, or was left by an
\* exception
InCall ==
    /\ IsTsvTool
    /\ \/ pc \in {"rows", "backup", "move", "replace", "return"}
       \/ pc = "done" /\ raised # NoExc

\* the rows of the table of the call as they were when it was opened, and
\* those the reader has given so far
RowsOfInput == fs0[Infile].data
RowsRead == SubSeq(RowsOfInput, 1, pos - 1)

\* a row that is empty or has no column at the path-column index
ShortRow(r) == Len(r.cols) <= args.path_col

DirName(p) == IF p \in {TmpName(1), TmpName(2)} THEN "/tmp" ELSE "."

\* C21: every rewriting tool creates its temporary output file in the
\* directory of the final destination path, so the final move is a rename
\* on one file system.
CE_C21_TempBesideDestination ==
    /\ (tool = "filter_manifest" /\ pc \in {"loop", "except", "after"}) =>
          DirName(TmpPath(args)) = DirName(OutputPath(args))
    /\ (IsTsvTool /\ Rewrites(args)
            /\ pc \in {"rows", "backup", "move", "replace"}) =>
          /\ fs[TmpName(multi.i)].exists
          /\ DirName(TmpName(multi.i)) = DirName(Infile)
          /\ args.same_fs

\* the content file f had before the first run is in one of the backup
\* files bs
OriginalIn(f, bs) ==
    \E b \in bs : fs[b].exists /\ fs[b].data = fs0[f].data

\* C22: after two or more successful runs in place on the same file, also
\* runs started in the same clock second (timestamped backups) and any runs
\* of the TSV tools (fixed suffix), the content the file had before the
\* first run is still in some backup file.
CE_C22_OriginalSurvivesReruns ==
    (run >= 2 /\ pc = "done" /\ status = 0 /\ raised = NoExc /\ RewritesInput) =>
        IF IsTsvTool
        THEN args.backup_suffix # "" =>
                \A i \in 1..Len(args.tsv) :
                    OriginalIn(args.tsv[i], {BackupOf(args.tsv[i])})
        ELSE OriginalIn(MANIFEST, {BACKUP, BACKUP_EARLIER})

(***************************************************************************)
(* Claims about the output of filter_manifest                              *)
(***************************************************************************)
\* the lines of the input for which filter_line returns True
WantedLines ==
    SelectSeq(fs0[args.input].data,
              LAMBDA l : filter_line(l, compute_min_seconds(args),
                                     args.check_supervisions) = "keep")

\* the lines of the input that are counted and not kept
UnwantedLines ==
    SelectSeq(fs0[args.input].data,
              LAMBDA l : /\ l.k # "blank"
                         /\ filter_line(l, compute_min_seconds(args),
                                        args.check_supervisions) # "keep")

\* C23: after a successful run of filter_manifest the output is the
\* sequence of the input records for which filter_line returns true, in the
\* order of the input, each once and equal in every field to the record
\* parsed from its line, one record per line and no blank line; kept is the
\* number of output lines, kept <= total and total - kept is the number of
\* the other records.
Thm_C23_FilterOutput ==
    (tool = "filter_manifest" /\ pc = "done" /\ status = 0) =>
        LET output == fs[OutputPath(args)].data
        IN  /\ fs[OutputPath(args)].exists
            /\ Len(output) = Len(WantedLines)
            /\ \A j \in 1..Len(output) :
                  /\ output[j].k = "cut"
                  /\ output[j].obj = WantedLines[j].obj
            /\ kept = Len(output)
            /\ kept <= total
            /\ total - kept = Len(UnwantedLines)

\* a run that kept a record whose input text json.dumps does not reproduce
\* and dropped another
Wit_C23 ==
    /\ tool = "filter_manifest" /\ pc = "done" /\ status = 0
    /\ kept = 1 /\ total = 2
    /\ \E j \in 1..Len(fs0[args.input].data) :
          /\ filter_line(fs0[args.input].data[j], compute_min_seconds(args), args.check_supervisions) = "keep"
          /\ fs0[args.input].data[j] # fs[OutputPath(args)].data[1]
          /\ fs0[args.input].data[j].obj = fs[OutputPath(args)].data[1].obj

\* C24: transform_path is idempotent under fixed roots, also when new_root
\* begins with old_root: the path returned for a path that transform_path
\* returned is that path again.
CE_C24_TransformIdempotent ==
    (tool = "transform_path" /\ pc = "again" /\ raised = NoExc) =>
        out = transform_path(args.path, args.old_root, args.new_root,
                             args.force_ext).path

(***************************************************************************)
(* Claims about the count-only runs of the check tools                     *)
(***************************************************************************)
\* the number of cuts of the manifest whose nested sampling rate is r
RateCount(data, r) ==
    Len(SelectSeq(data, LAMBDA l :
            l.k = "cut" /\ l.obj.sampling_rate = Num(r)))

\* the number of cuts of the manifest counted under channel bucket key
BucketCount(data, key) ==
    Len(SelectSeq(data, LAMBDA l : l.k = "cut" /\ InBucket(l.obj, key)))

\* C25: check_manifest and check_manifest2 without --fix create, move,
\* modify and delete no file; and a run that reads the manifest to its end,
\* with --fix or without, computes the sampling-rate and channel histograms
\* and the total that the manifest alone determines, so a count-only run
\* computes what a --fix run over the same input computes.
Thm_C25_CountOnlyFrame ==
    IsCheckTool =>
        /\ ~args.fix => fs = fs0
        /\ (pc = "done" /\ raised = NoExc) =>
              /\ Input0.exists
              /\ total = CountKind(Input0.data, "cut")
              /\ \A r \in DOMAIN stats.sampling_rates :
                    stats.sampling_rates[r] = RateCount(Input0.data, r)
              /\ \A key \in DOMAIN stats.channels :
                    stats.channels[key] = BucketCount(Input0.data, key)

\* a finished count-only run over a cut every --fix run keeps and a cut with
\* another sampling rate
Wit_C25 ==
    /\ IsCheckTool /\ ~args.fix /\ pc = "done" /\ raised = NoExc
    /\ Input0 = File(<<CutLine(CutOk), CutLine(CutRate16)>>)
    /\ fs = fs0
    /\ total = 2
    /\ stats.sampling_rates[24000] = 1
    /\ stats.sampling_rates[16000] = 1

====
